---- MODULE Spec2Model ----
(***************************************************************************)
(* A model of frontdoor_ipgroup_updater/main.py: one run of the job that   *)
(* fetches the AzureFrontDoor.Frontend prefixes, splits them by address    *)
(* family and replaces the address list of an Azure IP group.              *)
(*                                                                         *)
(* The run is sequential.  Each action is the code between two external    *)
(* requests (or one whole helper function); what the outside world answers *)
(* is drawn with \E in the action that issues the request.                 *)
(***************************************************************************)
EXTENDS Integers, Sequences, FiniteSets, TLC

\* Longest addressPrefixes list the vendor document carries in the model.
MaxLen == 4
\* Largest settings.minimum_acceptable_v4_networks in the model.
MaxThreshold == 2

VARIABLES
    pc,                             \* position of the run in main()
    dry_run,                        \* main: dry_run (from --dry-run)
    minimum_acceptable_v4_networks, \* settings.minimum_acceptable_v4_networks
    ip_group,                       \* the IP group resource held by Azure
    auth_token,                     \* main: auth_token
    json_file,                      \* _get_frontdoor_ips: json_file (the href)
    frontdoor_ips,                  \* main: frontdoor_ips
    frontdoor_ip_versions,          \* main: frontdoor_ip_versions
    existing_metadata,              \* update_azure_ip_group: existing_metadata
    requests,                       \* external requests issued so far, in order
    put_bodies,                     \* json= bodies of the PUT requests issued
    log,                            \* messages given to log.warning, in order
    calls,                          \* functions of main.py entered, in order
    returned,                       \* functions of main.py that returned normally
    fault,                          \* what the outside world answered badly
    uncaught,                       \* exception that left main(), or "none"
    exit_status                     \* process exit status (read when pc = "done")

vars == <<pc, dry_run, minimum_acceptable_v4_networks, ip_group, auth_token,
          json_file, frontdoor_ips, frontdoor_ip_versions, existing_metadata,
          requests, put_bodies, log, calls, returned, fault, uncaught,
          exit_status>>

Range(s) == {s[i] : i \in DOMAIN s}

(***************************************************************************)
(* ipaddress.ip_network(network) as lines 34 and 36 call it (strict): it    *)
(* returns an IPv4Network or an IPv6Network, or raises ValueError.         *)
(***************************************************************************)

\* The strings that occur as entries of addressPrefixes in the model.
Networks == {"10.0.0.0/8", "1.2.3.0/24", "2001:db8::/32", "10.0.0.1/8", "not-an-ip"}

\* What the address parser reads off a string: the address as groups (octets
\* for IPv4, hextets for IPv6), the group width and the prefix length.
\* version 0: the text is no address at all.
Lex(network) ==
    CASE network = "10.0.0.0/8"    -> [version |-> 4, width |-> 8,  groups |-> <<10, 0, 0, 0>>, prefixlen |-> 8]
      [] network = "1.2.3.0/24"    -> [version |-> 4, width |-> 8,  groups |-> <<1, 2, 3, 0>>, prefixlen |-> 24]
      [] network = "10.0.0.1/8"    -> [version |-> 4, width |-> 8,  groups |-> <<10, 0, 0, 1>>, prefixlen |-> 8]
      [] network = "192.0.2.0/24"  -> [version |-> 4, width |-> 8,  groups |-> <<192, 0, 2, 0>>, prefixlen |-> 24]
      [] network = "2001:db8::/32" -> [version |-> 6, width |-> 16, groups |-> <<8193, 3512, 0, 0, 0, 0, 0, 0>>, prefixlen |-> 32]
      [] OTHER                     -> [version |-> 0, width |-> 8,  groups |-> <<>>, prefixlen |-> 0]

\* Number of host bits of group i under the prefix length.
HostBitsIn(parsed, i) ==
    LET n == parsed.width * i - parsed.prefixlen
    IN  IF n < 0 THEN 0 ELSE IF n > parsed.width THEN parsed.width ELSE n

\* "has host bits set": some bit beyond the prefix is 1.
HasHostBits(parsed) ==
    \E i \in DOMAIN parsed.groups :
        parsed.groups[i] % (2 ^ HostBitsIn(parsed, i)) # 0

\* The type of ip_network(network), or the exception it raises.
ip_network(network) ==
    LET parsed == Lex(network)
    IN  IF parsed.version = 0 THEN "ValueError"
        ELSE IF parsed.prefixlen > parsed.width * Len(parsed.groups) THEN "ValueError"
        ELSE IF HasHostBits(parsed) THEN "ValueError"
        ELSE IF parsed.version = 4 THEN "IPv4Network"
        ELSE "IPv6Network"

(***************************************************************************)
(* _filter_ip_versions(networks)                                           *)
(***************************************************************************)

\* FilterStep with a slip: a prefix already in its bucket is not appended again.
FilterStepDeduplicating(acc, network) ==
    IF ip_network(network) = "ValueError"
    THEN [acc EXCEPT !.raised = "ValueError"]
    ELSE IF ip_network(network) = "IPv4Network"
    THEN IF network \in Range(acc.ipv4) THEN acc ELSE [acc EXCEPT !.ipv4 = Append(@, network)]
    ELSE IF network \in Range(acc.ipv6) THEN acc ELSE [acc EXCEPT !.ipv6 = Append(@, network)]

\* One pass of the for loop body over networks[i], from the state acc.
\* An exception of ip_network leaves the loop and the function.
FilterStep(acc, network) ==
    IF ip_network(network) = "ValueError"
    THEN [acc EXCEPT !.raised = "ValueError"]
    ELSE IF ip_network(network) = "IPv4Network"
    THEN [acc EXCEPT !.ipv4 = Append(@, network)]
    ELSE IF ip_network(network) = "IPv6Network"
    THEN [acc EXCEPT !.ipv6 = Append(@, network)]
    ELSE [acc EXCEPT !.log = Append(@, "Unknown Network Detected")]

RECURSIVE FilterLoop(_, _, _)
FilterLoop(networks, i, acc) ==
    IF i > Len(networks) \/ acc.raised # "none"
    THEN acc
    ELSE FilterLoop(networks, i + 1, FilterStep(acc, networks[i]))

\* The outcome of the call: the two lists, what it logged, and the exception
\* it raised ("none" when it returned).
filter_ip_versions(networks) ==
    LET acc == FilterLoop(networks, 1,
                   [ipv4 |-> <<>>, ipv6 |-> <<>>, log |-> <<>>, raised |-> "none"])
    IN  IF acc.raised # "none"
        THEN acc
        ELSE [acc EXCEPT !.log = Append(@, "Successfully Split IPv4 and IPv6 Addresses")]

(***************************************************************************)
(* The outside world                                                       *)
(***************************************************************************)

\* Every addressPrefixes list of at most MaxLen entries.
PrefixLists == UNION {[1..n -> Networks] : n \in 0..MaxLen}

\* app.acquire_token_for_client(...): a dict with access_token, or with
\* error and error_description.
TokenResponses ==
    { [access_token |-> "token"],
      [error |-> "invalid_client", error_description |-> "bad secret"] }

\* What the landing page request can come to (lines 52-56).
PageOutcomes == {"ok", "request_error", "http_error", "no_anchor"}

\* Sections of the vendor JSON document.
Frontend(prefixes) ==
    [id |-> "AzureFrontDoor.Frontend", properties |-> [addressPrefixes |-> prefixes]]
Other ==
    [id |-> "AzureCloud", properties |-> [addressPrefixes |-> <<"192.0.2.0/24">>]]
FrontendNoProperties == [id |-> "AzureFrontDoor.Frontend"]
FrontendNoPrefixes ==
    [id |-> "AzureFrontDoor.Frontend", properties |-> [region |-> ""]]

\* What the JSON download can come to (lines 58-59): the request raises, the
\* content is no JSON, or the content is a JSON object.
FileResponses ==
    { [outcome |-> "request_error"], [outcome |-> "malformed_json"],
      [outcome |-> "json", data |-> [name |-> "Public"]],
      [outcome |-> "json", data |-> [values |-> <<>>]],
      [outcome |-> "json", data |-> [values |-> <<Other>>]],
      [outcome |-> "json", data |-> [values |-> <<Other, FrontendNoProperties>>]],
      [outcome |-> "json", data |-> [values |-> <<FrontendNoPrefixes, Other>>]] }
    \cup { [outcome |-> "json", data |-> [values |-> <<Other, Frontend(l)>>]] : l \in PrefixLists }
    \cup { [outcome |-> "json", data |-> [values |-> <<Frontend(l), Frontend(<<>>)>>]] : l \in PrefixLists }

\* What the GET of the IP group can come to (lines 78-88).
GetOutcomes ==
    {"ok", "request_error", "non_json", "no_properties", "no_tags", "no_location"}

\* What the PUT of the IP group can come to (lines 94-103).
PutOutcomes == {"ok", "request_error", "http_error"}

Tags == { {}, {<<"env", "prod">>} }
Locations == {"eastus", "westeurope"}

(***************************************************************************)
(* The run                                                                 *)
(***************************************************************************)

Init ==
    /\ pc = "start"
    /\ dry_run \in BOOLEAN
    /\ minimum_acceptable_v4_networks \in 0..MaxThreshold
    /\ ip_group \in [tags : Tags, location : Locations,
                     properties : {[ipAddresses |-> <<"192.0.2.0/24">>]}]
    /\ auth_token = ""
    /\ json_file = ""
    /\ frontdoor_ips = <<>>
    /\ frontdoor_ip_versions = [ipv4 |-> <<>>, ipv6 |-> <<>>]
    /\ existing_metadata = [tags |-> {}, location |-> "",
                            properties |-> [ipAddresses |-> <<>>]]
    /\ requests = <<>>
    /\ put_bodies = <<>>
    /\ log = <<>>
    /\ calls = <<>>
    /\ returned = {}
    /\ fault = "none"
    /\ uncaught = "none"
    /\ exit_status = 0

\* sys.exit(status): the run ends with that status.
Exit(status) ==
    /\ pc' = "done"
    /\ exit_status' = status
    /\ uncaught' = uncaught

\* An exception nothing catches leaves main(): traceback, exit status 1.
Raise(exception) ==
    /\ pc' = "done"
    /\ exit_status' = 1
    /\ uncaught' = exception

\* main() returns: exit status 0.
MainReturns ==
    /\ pc' = "done"
    /\ exit_status' = 0
    /\ uncaught' = uncaught

\* AuthFailed with a slip: the failure is logged and the function returns.
AuthFailedWithoutExit ==
    /\ log' = Append(log, "Failed to get auth token")
    /\ fault' = "token:error"
    /\ pc' = "fetch_page"
    /\ UNCHANGED <<uncaught, exit_status>>

\* Lines 24-27: the response carries no access_token.
AuthFailed ==
    /\ log' = Append(log, "Failed to get auth token")
    /\ fault' = "token:error"
    /\ Exit(1)

\* _get_auth_token(), lines 14-27, called at line 117.
GetAuthToken ==
    /\ pc = "start"
    /\ calls' = Append(calls, "_get_auth_token")
    /\ requests' = Append(requests, [method |-> "POST", target |-> "token"])
    /\ \E token \in TokenResponses :
        IF "access_token" \in DOMAIN token
        THEN /\ auth_token' = token.access_token
             /\ returned' = returned \cup {"_get_auth_token"}
             /\ pc' = "fetch_page"
             /\ UNCHANGED <<log, fault, uncaught, exit_status>>
        ELSE /\ AuthFailed
             /\ UNCHANGED <<auth_token, returned>>
    /\ UNCHANGED <<dry_run, minimum_acceptable_v4_networks, ip_group, json_file,
                   frontdoor_ips, frontdoor_ip_versions, existing_metadata,
                   put_bodies>>

\* _get_frontdoor_ips(), lines 45-56 and the handler of lines 61-63: the
\* landing page request, its status check and the download anchor.
GetFrontdoorPage ==
    /\ pc = "fetch_page"
    /\ calls' = Append(calls, "_get_frontdoor_ips")
    /\ requests' = Append(requests, [method |-> "GET", target |-> "page"])
    /\ \E outcome \in PageOutcomes :
        IF outcome = "ok"
        THEN /\ json_file' = "href"
             /\ pc' = "fetch_json"
             /\ UNCHANGED <<log, fault, uncaught, exit_status>>
        ELSE /\ log' = Append(log, "Unable to get IP list from Microsoft Documentation")
             /\ fault' = "page:" \o outcome
             /\ Exit(1)
             /\ UNCHANGED json_file
    /\ UNCHANGED <<dry_run, minimum_acceptable_v4_networks, ip_group, auth_token,
                   frontdoor_ips, frontdoor_ip_versions, existing_metadata,
                   put_bodies, returned>>

\* Lines 59-60 on a JSON object: data["values"], then next(...) over the
\* sections whose id is AzureFrontDoor.Frontend.  The result is the exception
\* raised inside the try block, or the first matching section.
FindFrontdoor(data) ==
    IF "values" \notin DOMAIN data
    THEN [raised |-> "KeyError"]
    ELSE LET matching == SelectSeq(data.values,
                             LAMBDA section : section.id = "AzureFrontDoor.Frontend")
         IN  IF matching = <<>>
             THEN [raised |-> "StopIteration"]
             ELSE [raised |-> "none", frontdoor |-> matching[1]]

\* Line 64, outside the try block: frontdoor["properties"]["addressPrefixes"].
AddressPrefixes(frontdoor) ==
    IF "properties" \notin DOMAIN frontdoor
    THEN [raised |-> "KeyError"]
    ELSE IF "addressPrefixes" \notin DOMAIN frontdoor.properties
    THEN [raised |-> "KeyError"]
    ELSE [raised |-> "none", value |-> frontdoor.properties.addressPrefixes]

\* The name of what went wrong with the vendor document, for the record.
FileFault(file_resp) ==
    IF file_resp.outcome # "json" THEN "json:" \o file_resp.outcome
    ELSE IF "values" \notin DOMAIN file_resp.data THEN "json:no_values"
    ELSE IF FindFrontdoor(file_resp.data).raised # "none" THEN "json:no_section"
    ELSE IF "properties" \notin DOMAIN FindFrontdoor(file_resp.data).frontdoor
    THEN "json:no_properties"
    ELSE IF AddressPrefixes(FindFrontdoor(file_resp.data).frontdoor).raised # "none"
    THEN "json:no_addressPrefixes"
    ELSE "none"

\* _get_frontdoor_ips(), lines 58-64: the JSON download, its parse, the
\* section lookup, and the return of the section's prefixes.
GetFrontdoorJson ==
    /\ pc = "fetch_json"
    /\ requests' = Append(requests, [method |-> "GET", target |-> json_file])
    /\ \E file_resp \in FileResponses :
        /\ fault' = FileFault(file_resp)
        /\ IF file_resp.outcome # "json"
           THEN \* requests.get or json.loads raises inside the try block
                /\ log' = Append(log, "Unable to get IP list from Microsoft Documentation")
                /\ Exit(1)
                /\ UNCHANGED <<frontdoor_ips, returned>>
           ELSE LET found == FindFrontdoor(file_resp.data)
                IN  IF found.raised # "none"
                    THEN /\ log' = Append(log, "Unable to get IP list from Microsoft Documentation")
                         /\ Exit(1)
                         /\ UNCHANGED <<frontdoor_ips, returned>>
                    ELSE LET prefixes == AddressPrefixes(found.frontdoor)
                         IN  IF prefixes.raised # "none"
                             THEN /\ Raise(prefixes.raised)
                                  /\ UNCHANGED <<log, frontdoor_ips, returned>>
                             ELSE /\ frontdoor_ips' = prefixes.value
                                  /\ returned' = returned \cup {"_get_frontdoor_ips"}
                                  /\ pc' = "filter"
                                  /\ UNCHANGED <<log, uncaught, exit_status>>
    /\ UNCHANGED <<dry_run, minimum_acceptable_v4_networks, ip_group, auth_token,
                   json_file, frontdoor_ip_versions, existing_metadata,
                   put_bodies, calls>>

\* Line 119: frontdoor_ip_versions = _filter_ip_versions(frontdoor_ips).
FilterIpVersions ==
    /\ pc = "filter"
    /\ calls' = Append(calls, "_filter_ip_versions")
    /\ LET result == filter_ip_versions(frontdoor_ips)
       IN  /\ log' = log \o result.log
           /\ IF result.raised # "none"
              THEN /\ Raise(result.raised)
                   /\ UNCHANGED <<frontdoor_ip_versions, returned>>
              ELSE /\ frontdoor_ip_versions' = [ipv4 |-> result.ipv4, ipv6 |-> result.ipv6]
                   /\ returned' = returned \cup {"_filter_ip_versions"}
                   /\ pc' = "validate"
                   /\ UNCHANGED <<uncaught, exit_status>>
    /\ UNCHANGED <<dry_run, minimum_acceptable_v4_networks, ip_group, auth_token,
                   json_file, frontdoor_ips, existing_metadata, requests,
                   put_bodies, fault>>

\* EnoughNetworks with a slip: >= for >.
EnoughNetworksInclusive(ipv4, minimum) == Len(ipv4) >= minimum

\* Line 120: the condition under which main goes on to update the IP group.
EnoughNetworks(ipv4, minimum) == Len(ipv4) > minimum

\* Lines 120-124: the threshold check, and the call of line 121 or the
\* exit of lines 123-124.
Validate ==
    /\ pc = "validate"
    /\ IF EnoughNetworks(frontdoor_ip_versions.ipv4, minimum_acceptable_v4_networks)
       THEN /\ calls' = Append(calls, "update_azure_ip_group")
            /\ pc' = "read"
            /\ UNCHANGED <<log, uncaught, exit_status>>
       ELSE /\ log' = Append(log, "Less than minimum IPv4 Networks detected, cowardly exiting")
            /\ Exit(1)
            /\ UNCHANGED calls
    /\ UNCHANGED <<dry_run, minimum_acceptable_v4_networks, ip_group, auth_token,
                   json_file, frontdoor_ips, frontdoor_ip_versions,
                   existing_metadata, requests, put_bodies, returned, fault>>

\* The exception lines 78-88 raise on a bad answer to the GET.
GetException(outcome) ==
    CASE outcome = "request_error" -> "ConnectionError"
      [] outcome = "non_json"      -> "JSONDecodeError"
      [] OTHER                     -> "KeyError"

\* update_azure_ip_group(), lines 78-88: the GET of the resource and the log
\* of what it holds.  Nothing catches an exception here.
ReadResource ==
    /\ pc = "read"
    /\ requests' = Append(requests, [method |-> "GET", target |-> "ip_group"])
    /\ \E outcome \in GetOutcomes :
        IF outcome = "ok"
        THEN /\ existing_metadata' = ip_group
             /\ log' = Append(log, "Successfully pulled existing resource metadata")
             /\ pc' = "decide"
             /\ UNCHANGED <<fault, uncaught, exit_status>>
        ELSE /\ fault' = "get:" \o outcome
             /\ Raise(GetException(outcome))
             /\ UNCHANGED <<existing_metadata, log>>
    /\ UNCHANGED <<dry_run, minimum_acceptable_v4_networks, ip_group, auth_token,
                   json_file, frontdoor_ips, frontdoor_ip_versions, put_bodies,
                   calls, returned>>

\* Lines 89-90: dry run, no update; the function and main return.
SkipUpdate ==
    /\ pc = "decide"
    /\ dry_run
    /\ log' = Append(log, "Dry Run mode enabled, skipping actual update")
    /\ returned' = returned \cup {"update_azure_ip_group"}
    /\ MainReturns
    /\ UNCHANGED <<dry_run, minimum_acceptable_v4_networks, ip_group, auth_token,
                   json_file, frontdoor_ips, frontdoor_ip_versions,
                   existing_metadata, requests, put_bodies, calls, fault>>

\* PutBody with a slip: the tags are not carried over.
PutBodyWithoutTags(metadata, addresses) ==
    [tags |-> {},
     location |-> metadata.location,
     properties |-> [ipAddresses |-> addresses]]

\* Lines 97-101: the json= body of the PUT.
PutBody(metadata, addresses) ==
    [tags |-> metadata.tags,
     location |-> metadata.location,
     properties |-> [ipAddresses |-> addresses]]

\* PutFailed with a slip: no handler, the exception leaves the function.
PutFailedPropagates(exception) ==
    /\ log' = Append(log, "Submitting new list of IPs to Azure API")
    /\ Raise(exception)

\* Lines 105-106: what becomes of an exception raised in the try block of
\* lines 93-104 (the handler logs it and the function returns).
PutFailed(exception) ==
    /\ log' = log \o <<"Submitting new list of IPs to Azure API", "Something went wrong">>
    /\ MainReturns

\* ShouldSubmit with a slip: the flag is not consulted.
ShouldSubmitAlways(dry) == TRUE

\* Line 89: the condition under which the update is submitted.
ShouldSubmit(dry) == ~dry

\* Lines 91-106: the PUT of the new address list; the function and main
\* return whatever the PUT comes to.  addresses is the argument of line 121.
SubmitUpdate ==
    /\ pc = "decide"
    /\ ShouldSubmit(dry_run)
    /\ LET addresses == frontdoor_ip_versions.ipv4
           body == PutBody(existing_metadata, addresses)
       IN  /\ requests' = Append(requests, [method |-> "PUT", target |-> "ip_group"])
           /\ put_bodies' = Append(put_bodies, body)
           /\ \E outcome \in PutOutcomes :
               IF outcome = "ok"
               THEN /\ ip_group' = body
                    /\ log' = log \o <<"Submitting new list of IPs to Azure API",
                                       "Successfully updated IP Group with latest set of networks">>
                    /\ MainReturns
                    /\ UNCHANGED fault
               ELSE /\ fault' = "put:" \o outcome
                    /\ PutFailed(IF outcome = "http_error" THEN "HTTPError" ELSE "ConnectionError")
                    /\ UNCHANGED ip_group
    /\ returned' = returned \cup {"update_azure_ip_group"}
    /\ UNCHANGED <<dry_run, minimum_acceptable_v4_networks, auth_token, json_file,
                   frontdoor_ips, frontdoor_ip_versions, existing_metadata, calls>>

Next ==
    \/ GetAuthToken
    \/ GetFrontdoorPage
    \/ GetFrontdoorJson
    \/ FilterIpVersions
    \/ Validate
    \/ ReadResource
    \/ SkipUpdate
    \/ SubmitUpdate

Spec == Init /\ [][Next]_vars

(***************************************************************************)
(* Properties                                                              *)
(***************************************************************************)

TokenRequest == [method |-> "POST", target |-> "token"]
PageRequest == [method |-> "GET", target |-> "page"]
FileRequest == [method |-> "GET", target |-> "href"]
ResourceGet == [method |-> "GET", target |-> "ip_group"]
ResourcePut == [method |-> "PUT", target |-> "ip_group"]

Called(function) == function \in Range(calls)
Count(s, x) == Cardinality({i \in DOMAIN s : s[i] = x})
IsV4(network) == Lex(network).version = 4
IsV6(network) == Lex(network).version = 6
Parseable(network) == ip_network(network) # "ValueError"

PageFaults == {"page:request_error", "page:http_error", "page:no_anchor"}
FileFaults == {"json:request_error", "json:malformed_json", "json:no_values",
               "json:no_section", "json:no_properties", "json:no_addressPrefixes"}
GetFaults == {"get:request_error", "get:non_json", "get:no_properties",
              "get:no_tags", "get:no_location"}
PutFaults == {"put:request_error", "put:http_error"}

\* C1: once the prefixes are classified and main has made its check, a count
\* of IPv4 prefixes at or below the threshold means exit status 1 with no GET
\* and no PUT of the IP group, and a count above it means
\* update_azure_ip_group was called.
ThresholdGate ==
    ("_filter_ip_versions" \in returned /\ pc # "validate") =>
        IF Len(frontdoor_ip_versions.ipv4) <= minimum_acceptable_v4_networks
        THEN /\ pc = "done"
             /\ exit_status = 1
             /\ ~Called("update_azure_ip_group")
             /\ ResourceGet \notin Range(requests)
             /\ ResourcePut \notin Range(requests)
        ELSE Called("update_azure_ip_group")

\* C1 witness: a run stopped with exactly as many IPv4 prefixes as the threshold.
ThresholdGateWitness ==
    /\ pc = "done"
    /\ "_filter_ip_versions" \in returned
    /\ minimum_acceptable_v4_networks = 2
    /\ Len(frontdoor_ip_versions.ipv4) = 2
    /\ exit_status = 1

\* C2: every PUT body carries the tags and location the GET returned (those
\* of the resource), and as addresses exactly the IPv4 bucket: no IPv6 prefix
\* and nothing of the resource's previous address list.
PutCarriesMetadata ==
    \A i \in DOMAIN put_bodies :
        /\ put_bodies[i].tags = existing_metadata.tags
        /\ put_bodies[i].location = existing_metadata.location
        /\ put_bodies[i].tags = ip_group.tags
        /\ put_bodies[i].location = ip_group.location
        /\ put_bodies[i].properties.ipAddresses = frontdoor_ip_versions.ipv4
        /\ put_bodies[i].properties.ipAddresses = SelectSeq(frontdoor_ips, IsV4)
        /\ "192.0.2.0/24" \notin Range(put_bodies[i].properties.ipAddresses)

\* C2 witness: a PUT was issued for a tagged resource after a fetch that
\* also carried an IPv6 prefix.
PutCarriesMetadataWitness ==
    /\ Len(put_bodies) = 1
    /\ put_bodies[1].tags = {<<"env", "prod">>}
    /\ put_bodies[1].location = "westeurope"
    /\ frontdoor_ip_versions.ipv6 # <<>>
    /\ put_bodies[1].properties.ipAddresses = <<"10.0.0.0/8", "1.2.3.0/24">>

\* C3: in a dry run no PUT is ever issued, and once update_azure_ip_group
\* has run its first statement the GET of the resource has been issued.
DryRunNeverWrites ==
    dry_run =>
        /\ ResourcePut \notin Range(requests)
        /\ put_bodies = <<>>
        /\ (Called("update_azure_ip_group") /\ pc # "read") =>
               ResourceGet \in Range(requests)

\* C3 witness: a dry run that went through update_azure_ip_group.
DryRunNeverWritesWitness ==
    /\ dry_run
    /\ pc = "done"
    /\ "update_azure_ip_group" \in returned
    /\ ResourceGet \in Range(requests)
    /\ frontdoor_ip_versions.ipv4 # <<>>

\* C4: a token response without access_token ends the run with exit status
\* 1, the error logged, and no request but the token exchange issued.
TokenFailureIsTerminal ==
    fault = "token:error" =>
        /\ pc = "done"
        /\ exit_status = 1
        /\ log = <<"Failed to get auth token">>
        /\ requests = <<TokenRequest>>
        /\ calls = <<"_get_auth_token">>

\* C4 witness: a run whose token exchange failed.
TokenFailureIsTerminalWitness ==
    /\ fault = "token:error"
    /\ pc = "done"
    /\ exit_status = 1

\* C5: every failure of the source fetch (the section's missing properties
\* or addressPrefixes included) is caught and logged by the handler of
\* _get_frontdoor_ips and ends the run with exit status 1, nothing being
\* classified or requested of the resource afterwards.
FetchFailureCaught ==
    fault \in PageFaults \cup FileFaults =>
        /\ pc = "done"
        /\ exit_status = 1
        /\ uncaught = "none"
        /\ log = <<"Unable to get IP list from Microsoft Documentation">>
        /\ "_get_frontdoor_ips" \notin returned
        /\ ~Called("_filter_ip_versions")
        /\ ResourceGet \notin Range(requests)
        /\ ResourcePut \notin Range(requests)

\* C6: a failed GET of the resource is logged and absorbed: the run ends
\* with exit status 0.
ReadFailureAbsorbed ==
    fault \in GetFaults =>
        /\ pc = "done"
        /\ exit_status = 0
        /\ uncaught = "none"

\* C7: a failed PUT is caught and logged, update_azure_ip_group returns, and
\* the run ends with exit status 0.
PutFailureAbsorbed ==
    fault \in PutFaults =>
        /\ pc = "done"
        /\ exit_status = 0
        /\ uncaught = "none"
        /\ log[Len(log)] = "Something went wrong"
        /\ "update_azure_ip_group" \in returned
        /\ requests[Len(requests)] = ResourcePut

\* C7 witness: a run whose PUT was answered with an error status.
PutFailureAbsorbedWitness ==
    /\ fault = "put:http_error"
    /\ pc = "done"
    /\ Len(put_bodies) = 1

\* C8: _filter_ip_versions never raises: whatever the list, it returns, with
\* the parseable entries classified and one warning for each other entry.
ClassificationNeverRaises ==
    Called("_filter_ip_versions") =>
        /\ "_filter_ip_versions" \in returned
        /\ frontdoor_ip_versions.ipv4 =
               SelectSeq(frontdoor_ips, LAMBDA n : Parseable(n) /\ IsV4(n))
        /\ frontdoor_ip_versions.ipv6 =
               SelectSeq(frontdoor_ips, LAMBDA n : Parseable(n) /\ IsV6(n))
        /\ Count(log, "Unknown Network Detected") =
               Len(SelectSeq(frontdoor_ips, LAMBDA n : ~Parseable(n)))

\* C9: on a list of parseable prefixes _filter_ip_versions returns the IPv4
\* entries and the IPv6 entries, each in source order with duplicates kept,
\* and the two lengths sum to the length of the list.
ClassificationPartitions ==
    (Called("_filter_ip_versions") /\ \A n \in Range(frontdoor_ips) : Parseable(n)) =>
        /\ "_filter_ip_versions" \in returned
        /\ frontdoor_ip_versions.ipv4 = SelectSeq(frontdoor_ips, IsV4)
        /\ frontdoor_ip_versions.ipv6 = SelectSeq(frontdoor_ips, IsV6)
        /\ Len(frontdoor_ip_versions.ipv4) + Len(frontdoor_ip_versions.ipv6)
               = Len(frontdoor_ips)

\* C9 witness: a classified list with a repeated prefix, IPv4 entries out of
\* sorted order, and an IPv6 entry between them.
ClassificationPartitionsWitness ==
    /\ "_filter_ip_versions" \in returned
    /\ frontdoor_ips = <<"10.0.0.0/8", "2001:db8::/32", "1.2.3.0/24", "10.0.0.0/8">>
    /\ frontdoor_ip_versions.ipv4 = <<"10.0.0.0/8", "1.2.3.0/24", "10.0.0.0/8">>
    /\ frontdoor_ip_versions.ipv6 = <<"2001:db8::/32">>

\* C10: a finished run that is no dry run, got its token and its prefixes
\* and counted more IPv4 prefixes than the threshold has issued exactly the
\* token exchange, the page GET, the JSON GET, the resource GET and the
\* resource PUT, in that order, and ends with exit status 0.
SuccessfulRunSequence ==
    ( /\ pc = "done"
      /\ ~dry_run
      /\ {"_get_auth_token", "_get_frontdoor_ips", "_filter_ip_versions"} \subseteq returned
      /\ Len(frontdoor_ip_versions.ipv4) > minimum_acceptable_v4_networks ) =>
        /\ requests = <<TokenRequest, PageRequest, FileRequest, ResourceGet, ResourcePut>>
        /\ exit_status = 0

====
